---- MODULE Spec2Model ----
(***************************************************************************)
(* Content Moderation System (user-flag-app/user_flag_app.py).             *)
(*                                                                         *)
(* The model covers the SQLite activity store (DatabaseManager), the       *)
(* pipeline (ContentModerationSystem.process and its helpers) and the      *)
(* top-level runner (main).  The two HTTP services are the environment:    *)
(* every response they can give is drawn from a small set.                 *)
(*                                                                         *)
(* Python None is the string "None"; CSV cells are strings, as csv gives   *)
(* them; scores are integers scaled by ten (10 stands for 1.0).            *)
(***************************************************************************)
EXTENDS Integers, Sequences, FiniteSets, TLC

\* ------------------------------------------------------------------ bounds
\* Most rows a single input file holds.
MaxRows == 2
\* Most runs (main or process) started in one behaviour.
MaxRuns == 2
\* Most rows the user_activity table holds; input is offered only below it.
MaxEntries == 2

\* ------------------------------------------------------------- value sets
None == "None"

\* Cells of the user_id column: two parseable ids and one that int() rejects.
UserIdCells == {"1", "2", "x"}
\* Cells of the message column: a text, or None for a short row (restval).
MessageCells == {"m1", None}
\* Rows csv.DictReader can yield.
Rows == [user_id : UserIdCells, message : MessageCells]

\* Paths main or a caller can pass: None, the argparse default '' and a name.
InputPaths == {None, "", "in.csv"}
OutputPaths == {None, "", "out.csv"}

\* Scores the scoring service returns (random.uniform(0, 1)), scaled by ten.
Scores == {0, 10}

\* Python truthiness of a path argument: None and '' are falsy.
Falsy(x) == x = None \/ x = ""

\* int(row['user_id']): the parsed value, or the exception int() raises.
int(cell) ==
  IF cell = "1" THEN [raised |-> "none", value |-> 1]
  ELSE IF cell = "2" THEN [raised |-> "none", value |-> 2]
  ELSE IF cell = None THEN [raised |-> "TypeError", value |-> 0]
  ELSE [raised |-> "ValueError", value |-> 0]

\* ------------------------------------------------------- remote services
\* translate_text of the translation service: the text comes back unchanged.
translate_text(text) == text

\* What a POST to a service can come to.  transport: the request raised
\* (connection refused, timeout); otherwise an HTTP status and a JSON object
\* with or without an 'error' key and with or without the payload key.
Response(transport, status, hasError, hasKey, value) ==
  [transport |-> transport, status |-> status, hasError |-> hasError,
   hasKey |-> hasKey, value |-> value]

\* The three failures; nil fills the value no key carries.
TransportFailure(nil) == Response(TRUE, 0, FALSE, FALSE, nil)
\* The services' except branch: status 400 and {'error': str(e)}.
ErrorPayload(nil) == Response(FALSE, 400, TRUE, FALSE, nil)
\* A non-2xx answer whose JSON body has no 'error' key (a gateway's own body).
BareFailure(nil) == Response(FALSE, 500, FALSE, FALSE, nil)

TranslationResponses(text) ==
  { Response(FALSE, 200, FALSE, TRUE, translate_text(text)),
    ErrorPayload(None), BareFailure(None), TransportFailure(None) }

ScoringResponses ==
  { Response(FALSE, 200, FALSE, TRUE, s) : s \in Scores }
    \cup { ErrorPayload(0), BareFailure(0), TransportFailure(0) }

\* What kind of answer resp is: "transport" (the request raised), "error"
\* (an 'error' field), "bare" (non-2xx, no 'error' field) or "ok".
Kind(resp) ==
  IF resp.transport THEN "transport"
  ELSE IF resp.hasError THEN "error"
  ELSE IF resp.status < 200 \/ resp.status > 299 THEN "bare"
  ELSE "ok"

\* _query_service: the parsed JSON body, or RequestException re-raised.
query_service(resp) ==
  IF resp.transport
    THEN [raised |-> "RequestException", hasError |-> FALSE, hasKey |-> FALSE,
          value |-> resp.value]
    ELSE [raised |-> "none", hasError |-> resp.hasError, hasKey |-> resp.hasKey,
          value |-> resp.value]

\* A _get_translated_message without the test for an 'error' field.
get_translated_message_unchecked(resp) ==
  LET translated_data == query_service(resp) IN
  IF translated_data.raised # "none"
    THEN [raised |-> translated_data.raised, value |-> None]
  ELSE [raised |-> "none",
        value |-> IF translated_data.hasKey THEN translated_data.value ELSE ""]

\* _get_translated_message: the text, '' when the key is absent.
get_translated_message(resp) ==
  LET translated_data == query_service(resp) IN
  IF translated_data.raised # "none"
    THEN [raised |-> translated_data.raised, value |-> None]
  ELSE IF translated_data.hasError
    THEN [raised |-> "APIServiceError", value |-> None]
  ELSE [raised |-> "none",
        value |-> IF translated_data.hasKey THEN translated_data.value ELSE ""]

\* _get_score: the score, 0.0 when the key is absent.
get_score(resp) ==
  LET score_data == query_service(resp) IN
  IF score_data.raised # "none"
    THEN [raised |-> score_data.raised, value |-> 0]
  ELSE IF score_data.hasError
    THEN [raised |-> "APIServiceError", value |-> 0]
  ELSE [raised |-> "none",
        value |-> IF score_data.hasKey THEN score_data.value ELSE 0]

\* ---------------------------------------------------------- activity store
\* One row of user_activity; the position in the table is the id order.
ActivityEntry(user_id, translated_message, calculated_score) ==
  [user_id |-> user_id, translated_message |-> translated_message,
   calculated_score |-> calculated_score]

\* An initialize that creates the table and deletes nothing.
initialize_create_only(table, rows) == [tableExists |-> TRUE, entries |-> rows]

\* DatabaseManager.initialize when no database error occurs:
\* CREATE TABLE IF NOT EXISTS, then DELETE FROM user_activity.
initialize(table, rows) == [tableExists |-> TRUE, entries |-> <<>>]

\* An INSERT OR REPLACE under one fixed id: the new row replaces the table's.
store_user_activity_replace(rows, uid, text, value) ==
  <<ActivityEntry(uid, text, value)>>

\* DatabaseManager.store_user_activity when no database error occurs.
store_user_activity(rows, uid, text, value) ==
  Append(rows, ActivityEntry(uid, text, value))

RECURSIVE SumScores(_)
SumScores(rows) ==
  IF rows = <<>> THEN 0
  ELSE Head(rows).calculated_score + SumScores(Tail(rows))

\* The rows of one user, in table order.
OfUser(rows, u) == SelectSeq(rows, LAMBDA e : e.user_id = u)

\* count(translated_message): SQL count of a column skips NULL.
CountMessages(rows) ==
  Len(SelectSeq(rows, LAMBDA e : e.translated_message # None))

\* An average taken over the counted messages instead of the scores.
UserStatistic_avg_over_messages(rows, u) ==
  [user_id |-> u,
   total_messages |-> CountMessages(OfUser(rows, u)),
   avg_score |-> [num |-> SumScores(OfUser(rows, u)),
                  den |-> CountMessages(OfUser(rows, u))]]

\* One result row of the GROUP BY: avg_score is kept exact as sum / count.
UserStatistic(rows, u) ==
  [user_id |-> u,
   total_messages |-> CountMessages(OfUser(rows, u)),
   avg_score |-> [num |-> SumScores(OfUser(rows, u)),
                  den |-> Len(OfUser(rows, u))]]

RECURSIVE Ascending(_)
Ascending(S) ==
  IF S = {} THEN <<>>
  ELSE LET m == CHOOSE x \in S : \A y \in S : x <= y
       IN <<m>> \o Ascending(S \ {m})

\* DatabaseManager.generate_user_statistics when no database error occurs:
\* one tuple per user_id, in the engine's grouping order (ascending).
generate_user_statistics(rows) ==
  LET ids == Ascending({ rows[i].user_id : i \in DOMAIN rows })
  IN [i \in DOMAIN ids |-> UserStatistic(rows, ids[i])]

\* ------------------------------------------------------------ report writer
Header == <<"user_id", "total_messages", "avg_score">>

\* A writer that emits the rows last to first.
write_output_reversed(data) ==
  <<Header>> \o
    [i \in DOMAIN data |->
       <<data[Len(data) + 1 - i].user_id, data[Len(data) + 1 - i].total_messages,
         data[Len(data) + 1 - i].avg_score>>]

\* _write_output when no IOError occurs: the header, then one line per tuple.
write_output(data) ==
  <<Header>> \o
    [i \in DOMAIN data |->
       <<data[i].user_id, data[i].total_messages, data[i].avg_score>>]

\* ------------------------------------------------------------------- state
VARIABLES
  pc,                 \* where the current run stands
  entry,              \* "main", "process" or "none": how the run was started
  input_file,         \* process argument
  output_file,        \* process argument
  tableExists,        \* user_activity exists in the database file
  entries,            \* rows of user_activity, in id order
  rowsRead,           \* rows the _get_input generator has yielded in this run
  user_id,            \* loop local
  message,            \* loop local
  translated_message, \* loop local
  score,              \* loop local
  result,             \* tuples returned by generate_user_statistics
  outFile,            \* the file at the run's output path
  raised,             \* exception that ended the run or the last call
  exitStatus,         \* -1 while main has not exited, else its exit status
  last,               \* the DatabaseManager call the last step made ("none"
                      \* when it made none), whether it returned, and
                      \* whether it left its connection open
  cleared,            \* rows deleted, when that call was initialize()
  log,                \* calls of this run: <<operation, row number, outcome>>
  startEntries,       \* the table as it was when process was entered
  appended,           \* the entries this run handed to store_user_activity
  trail,              \* per row translated in this run: the text translation
                      \* returned, the text sent to scoring, the score returned
  runs                \* runs started so far

vars ==
  <<pc, entry, input_file, output_file, tableExists, entries, rowsRead,
    user_id, message, translated_message, score, result, outFile, raised,
    exitStatus, last, cleared, log, startEntries, appended, trail, runs>>

store == <<tableExists, entries>>
locals == <<user_id, message, translated_message, score>>
args == <<entry, input_file, output_file>>

NoFile == [exists |-> FALSE, lines |-> <<>>]

\* No run is in progress: nothing ran yet, or process returned or raised.
Quiescent == pc \in {"Idle", "Done", "Failed"}

\* The loop locals of process; they are gone once its frame is left.
NoLocals ==
  /\ user_id' = 0
  /\ message' = None
  /\ translated_message' = None
  /\ score' = 0

\* The step calls no DatabaseManager method.
NoDbCall == last' = <<"none", TRUE, FALSE>> /\ cleared' = 0

\* Nothing of an earlier run is left: no arguments, no record of its calls.
NoRun ==
  /\ entry' = "none"
  /\ input_file' = None
  /\ output_file' = None
  /\ rowsRead' = <<>>
  /\ NoLocals
  /\ result' = <<>>
  /\ outFile' = NoFile
  /\ exitStatus' = -1
  /\ log' = <<>>
  /\ startEntries' = <<>>
  /\ appended' = <<>>
  /\ trail' = <<>>

\* After construction: DatabaseManager(db_path) opens nothing, so the
\* database file has no table yet.
Init ==
  /\ pc = "Idle"
  /\ entry = "none"
  /\ input_file = None
  /\ output_file = None
  /\ tableExists = FALSE
  /\ entries = <<>>
  /\ rowsRead = <<>>
  /\ user_id = 0
  /\ message = None
  /\ translated_message = None
  /\ score = 0
  /\ result = <<>>
  /\ outFile = NoFile
  /\ raised = "none"
  /\ exitStatus = -1
  /\ last = <<"none", TRUE, FALSE>>
  /\ cleared = 0
  /\ log = <<>>
  /\ startEntries = <<>>
  /\ appended = <<>>
  /\ trail = <<>>
  /\ runs = 0

\* with sqlite3.connect(self.db_path) as conn: leaving the block commits or
\* rolls back and does not close conn, and no method calls conn.close().  Can
\* the connection be open when the method ends?  When it returns, conn is
\* unreferenced and is closed whenever the collector reclaims it: at once or
\* later.  When a statement raised, the propagating exception holds the frame
\* and conn with it: open.  When the engine failed (dbOk false) it may be
\* connect that raised, and then there is no connection.
ConnLeftOpen(returned, dbOk) ==
  IF returned THEN BOOLEAN ELSE IF dbOk THEN {TRUE} ELSE BOOLEAN

\* A main whose except branch logs the exception and returns: exit status 0.
Fail_exit_zero(exc) ==
  /\ pc' = "Failed"
  /\ raised' = exc
  /\ exitStatus' = IF entry = "main" THEN 0 ELSE -1
  /\ NoLocals

\* An exception leaves process: the run is over and the frame is gone; under
\* main the exception is caught, logged and turned into SystemExit(1).
Fail(exc) ==
  /\ pc' = "Failed"
  /\ raised' = exc
  /\ exitStatus' = IF entry = "main" THEN 1 ELSE -1
  /\ NoLocals

\* What every start of a run resets: arguments are bound, locals are fresh,
\* and the output path names no file yet.
Begin(e, in, out) ==
  /\ Quiescent
  /\ runs < MaxRuns
  /\ runs' = runs + 1
  /\ entry' = e
  /\ input_file' = in
  /\ output_file' = out
  /\ rowsRead' = <<>>
  /\ NoLocals
  /\ result' = <<>>
  /\ outFile' = NoFile
  /\ appended' = <<>>
  /\ trail' = <<>>

\* DatabaseManager.initialize called on its own, between runs (the tests'
\* fixture does so before the first run).
CallInitialize(dbOk) ==
  /\ Quiescent
  /\ pc' = "Idle"
  /\ NoRun
  /\ IF dbOk
       THEN /\ tableExists' = initialize(tableExists, entries).tableExists
            /\ entries' = initialize(tableExists, entries).entries
            /\ cleared' = Len(entries)
            /\ \E open \in ConnLeftOpen(TRUE, dbOk) :
                 last' = <<"initialize", TRUE, open>>
            /\ raised' = "none"
       ELSE /\ UNCHANGED store
            /\ cleared' = 0
            /\ \E open \in ConnLeftOpen(FALSE, dbOk) :
                 last' = <<"initialize", FALSE, open>>
            /\ raised' = "DatabaseError"
  /\ UNCHANGED runs

\* main up to its call of process: parse the arguments, build the
\* DatabaseManager, initialize it.
main(in, out, dbOk) ==
  /\ Begin("main", in, out)
  /\ IF dbOk
       THEN /\ tableExists' = initialize(tableExists, entries).tableExists
            /\ entries' = initialize(tableExists, entries).entries
            /\ cleared' = Len(entries)
            /\ \E open \in ConnLeftOpen(TRUE, dbOk) :
                 last' = <<"initialize", TRUE, open>>
            /\ log' = << <<"initialize", 0, "ok">> >>
            /\ pc' = "Validating"
            /\ raised' = "none"
            /\ exitStatus' = -1
       ELSE /\ UNCHANGED store
            /\ cleared' = 0
            /\ \E open \in ConnLeftOpen(FALSE, dbOk) :
                 last' = <<"initialize", FALSE, open>>
            /\ log' = << <<"initialize", 0, "raised">> >>
            /\ pc' = "Failed"
            /\ raised' = "DatabaseError"
            /\ exitStatus' = 1
  /\ startEntries' = entries'

\* process called directly on an existing ContentModerationSystem.
process(in, out) ==
  /\ Begin("process", in, out)
  /\ pc' = "Validating"
  /\ raised' = "none"
  /\ exitStatus' = -1
  /\ log' = <<>>
  /\ startEntries' = entries
  /\ NoDbCall
  /\ UNCHANGED store

\* A validation that looks at the input path only.
validate_file_paths_input_only(in, out) ==
  IF Falsy(in) THEN "MissingFileArgumentError" ELSE "none"

\* _validate_file_paths: the exception it raises, "none" when it returns.
validate_file_paths(in, out) ==
  IF Falsy(in) \/ Falsy(out) THEN "MissingFileArgumentError" ELSE "none"

\* self._validate_file_paths(input_file, output_file), first in process.
validating ==
  /\ pc = "Validating"
  /\ IF validate_file_paths(input_file, output_file) # "none"
       THEN Fail(validate_file_paths(input_file, output_file))
       ELSE pc' = "Streaming" /\ UNCHANGED <<locals, raised, exitStatus>>
  /\ NoDbCall
  /\ UNCHANGED <<args, store, rowsRead, result, outFile, log, startEntries,
                 appended, trail, runs>>

\* What the next step of the _get_input generator can come to: the open
\* fails, the file yields one more row, or the file has ended.
InputEvents ==
  { [kind |-> k, row |-> [user_id |-> "x", message |-> None]] :
      k \in {"IOError", "end"} }
    \cup { [kind |-> "row", row |-> r] : r \in Rows }

\* One step of the for loop's iterator, _get_input: the first step opens the
\* file (IOError when it cannot), each step yields the next row of the file
\* or ends; then the loop body binds user_id and message.
get_input(event) ==
  /\ pc = "Streaming"
  /\ event.kind = "IOError" => rowsRead = <<>>
  /\ event.kind = "row" => Len(rowsRead) < MaxRows /\ Len(entries) < MaxEntries
  /\ IF event.kind = "IOError"
       THEN Fail("IOError") /\ UNCHANGED rowsRead
     ELSE IF event.kind = "row"
       THEN /\ rowsRead' = Append(rowsRead, event.row)
            /\ IF int(event.row.user_id).raised # "none"
                 THEN Fail(int(event.row.user_id).raised)
                 ELSE /\ user_id' = int(event.row.user_id).value
                      /\ message' = event.row.message
                      /\ pc' = "Translate"
                      /\ UNCHANGED <<translated_message, score, raised,
                                     exitStatus>>
     ELSE /\ pc' = "Aggregating"
          /\ NoLocals
          /\ UNCHANGED <<rowsRead, raised, exitStatus>>
  /\ NoDbCall
  /\ UNCHANGED <<args, store, result, outFile, log, startEntries, appended,
                 trail, runs>>

\* The trail's mark for a row whose text has not been sent to scoring.
Unsent == "unsent"

\* A scoring request that carries the row's raw message.
score_payload_raw(raw, translated) == raw

\* The message process hands to _get_score, which posts it to the scoring
\* service: the translated text.
score_payload(raw, translated) == translated

\* A translate step that skips the row on a failure and goes on to the next.
translate_skip(resp) ==
  /\ pc = "Translate"
  /\ log' = Append(log, <<"translate", Len(rowsRead), Kind(resp)>>)
  /\ IF get_translated_message(resp).raised # "none"
       THEN /\ pc' = "Streaming"
            /\ UNCHANGED <<locals, raised, exitStatus, trail>>
       ELSE /\ translated_message' = get_translated_message(resp).value
            /\ trail' = Append(trail,
                 [translated |-> get_translated_message(resp).value,
                  sent |-> Unsent, score |-> -1])
            /\ pc' = "Score"
            /\ UNCHANGED <<user_id, message, score, raised, exitStatus>>
  /\ NoDbCall
  /\ UNCHANGED <<args, store, rowsRead, result, outFile, startEntries,
                 appended, runs>>

\* translated_message = self._get_translated_message(user_id, message)
translate(resp) ==
  /\ pc = "Translate"
  /\ log' = Append(log, <<"translate", Len(rowsRead), Kind(resp)>>)
  /\ IF get_translated_message(resp).raised # "none"
       THEN Fail(get_translated_message(resp).raised) /\ UNCHANGED trail
       ELSE /\ translated_message' = get_translated_message(resp).value
            /\ trail' = Append(trail,
                 [translated |-> get_translated_message(resp).value,
                  sent |-> Unsent, score |-> -1])
            /\ pc' = "Score"
            /\ UNCHANGED <<user_id, message, score, raised, exitStatus>>
  /\ NoDbCall
  /\ UNCHANGED <<args, store, rowsRead, result, outFile, startEntries,
                 appended, runs>>

\* A score step that swallows a failure and stores the default score.
get_score_step_swallow(resp) ==
  /\ pc = "Score"
  /\ log' = Append(log, <<"score", Len(rowsRead), Kind(resp)>>)
  /\ score' = get_score(resp).value
  /\ pc' = "Store"
  /\ UNCHANGED <<user_id, message, translated_message, raised, exitStatus>>
  /\ trail' = [trail EXCEPT ![Len(trail)] =
                 [@ EXCEPT !.sent = score_payload(message, translated_message),
                           !.score = IF get_score(resp).raised # "none"
                                       THEN -1 ELSE get_score(resp).value]]
  /\ NoDbCall
  /\ UNCHANGED <<args, store, rowsRead, result, outFile, startEntries,
                 appended, runs>>

\* score = self._get_score(user_id, translated_message)
get_score_step(resp) ==
  /\ pc = "Score"
  /\ log' = Append(log, <<"score", Len(rowsRead), Kind(resp)>>)
  /\ IF get_score(resp).raised # "none"
       THEN Fail(get_score(resp).raised)
       ELSE /\ score' = get_score(resp).value
            /\ pc' = "Store"
            /\ UNCHANGED <<user_id, message, translated_message, raised,
                           exitStatus>>
  /\ trail' = [trail EXCEPT ![Len(trail)] =
                 [@ EXCEPT !.sent = score_payload(message, translated_message),
                           !.score = IF get_score(resp).raised # "none"
                                       THEN -1 ELSE get_score(resp).value]]
  /\ NoDbCall
  /\ UNCHANGED <<args, store, rowsRead, result, outFile, startEntries,
                 appended, runs>>

\* A store step that logs a database error and goes on to the next row.
store_activity_swallow(dbOk) ==
  /\ pc = "Store"
  /\ IF dbOk /\ tableExists
       THEN /\ entries' = store_user_activity(entries, user_id,
                                               translated_message, score)
            /\ appended' = Append(appended, ActivityEntry(user_id,
                                               translated_message, score))
            /\ log' = Append(log, <<"store", Len(rowsRead), "ok">>)
            /\ \E open \in ConnLeftOpen(TRUE, dbOk) :
                 last' = <<"store", TRUE, open>>
       ELSE /\ log' = Append(log, <<"store", Len(rowsRead), "raised">>)
            /\ \E open \in ConnLeftOpen(FALSE, dbOk) :
                 last' = <<"store", FALSE, open>>
            /\ UNCHANGED <<entries, appended>>
  /\ pc' = "Streaming"
  /\ cleared' = 0
  /\ UNCHANGED <<locals, raised, exitStatus>>
  /\ UNCHANGED <<args, tableExists, rowsRead, result, outFile, startEntries,
                 trail, runs>>

\* self._store_activity(user_id, translated_message, score): the INSERT
\* fails when the table is absent or the engine reports an error.
store_activity(dbOk) ==
  /\ pc = "Store"
  /\ IF dbOk /\ tableExists
       THEN /\ entries' = store_user_activity(entries, user_id,
                                               translated_message, score)
            /\ appended' = Append(appended, ActivityEntry(user_id,
                                               translated_message, score))
            /\ log' = Append(log, <<"store", Len(rowsRead), "ok">>)
            /\ \E open \in ConnLeftOpen(TRUE, dbOk) :
                 last' = <<"store", TRUE, open>>
            /\ pc' = "Streaming"
            /\ UNCHANGED <<locals, raised, exitStatus>>
       ELSE /\ Fail("DatabaseError")
            /\ log' = Append(log, <<"store", Len(rowsRead), "raised">>)
            /\ \E open \in ConnLeftOpen(FALSE, dbOk) :
                 last' = <<"store", FALSE, open>>
            /\ UNCHANGED <<entries, appended>>
  /\ cleared' = 0
  /\ UNCHANGED <<args, tableExists, rowsRead, result, outFile, startEntries,
                 trail, runs>>

\* result = self.db_manager.generate_user_statistics()
aggregate(dbOk) ==
  /\ pc = "Aggregating"
  /\ IF dbOk /\ tableExists
       THEN /\ result' = generate_user_statistics(entries)
            /\ log' = Append(log, <<"aggregate", 0, "ok">>)
            /\ \E open \in ConnLeftOpen(TRUE, dbOk) :
                 last' = <<"aggregate", TRUE, open>>
            /\ pc' = "Reporting"
            /\ UNCHANGED <<locals, raised, exitStatus>>
       ELSE /\ Fail("DatabaseError")
            /\ log' = Append(log, <<"aggregate", 0, "raised">>)
            /\ \E open \in ConnLeftOpen(FALSE, dbOk) :
                 last' = <<"aggregate", FALSE, open>>
            /\ UNCHANGED result
  /\ cleared' = 0
  /\ UNCHANGED <<args, store, rowsRead, outFile, startEntries, appended,
                 trail, runs>>

\* A writer that logs an IOError and returns: process goes on to completion.
write_output_step_swallow(written) ==
  /\ pc = "Reporting"
  /\ outFile' = IF written < 0 THEN NoFile
                 ELSE [exists |-> TRUE,
                       lines |-> SubSeq(write_output(result), 1, written)]
  /\ log' = Append(log, <<"write", 0,
                          IF written = Len(write_output(result))
                            THEN "ok" ELSE "raised">>)
  /\ pc' = "Done"
  /\ raised' = "none"
  /\ exitStatus' = IF entry = "main" THEN 0 ELSE -1
  /\ UNCHANGED locals
  /\ NoDbCall
  /\ UNCHANGED <<args, store, rowsRead, result, startEntries, appended,
                 trail, runs>>

\* A writer that deletes the stored entries when the write fails.
write_output_step_cleanup(written) ==
  /\ pc = "Reporting"
  /\ IF written = Len(write_output(result))
       THEN /\ outFile' = [exists |-> TRUE, lines |-> write_output(result)]
            /\ log' = Append(log, <<"write", 0, "ok">>)
            /\ pc' = "Done"
            /\ raised' = "none"
            /\ exitStatus' = IF entry = "main" THEN 0 ELSE -1
            /\ UNCHANGED <<locals, entries>>
       ELSE /\ Fail("IOError")
            /\ log' = Append(log, <<"write", 0, "raised">>)
            /\ outFile' = IF written < 0 THEN NoFile
                           ELSE [exists |-> TRUE,
                                 lines |-> SubSeq(write_output(result), 1,
                                                  written)]
            /\ entries' = <<>>
  /\ NoDbCall
  /\ UNCHANGED <<args, tableExists, rowsRead, result, startEntries, appended,
                 trail, runs>>

\* A writer that tries the write again when it fails, for as long as it
\* fails.
write_output_step_retry(written) ==
  /\ pc = "Reporting"
  /\ IF written = Len(write_output(result))
       THEN /\ outFile' = [exists |-> TRUE, lines |-> write_output(result)]
            /\ log' = Append(log, <<"write", 0, "ok">>)
            /\ pc' = "Done"
            /\ raised' = "none"
            /\ exitStatus' = IF entry = "main" THEN 0 ELSE -1
       ELSE /\ outFile' = IF written < 0 THEN NoFile
                           ELSE [exists |-> TRUE,
                                 lines |-> SubSeq(write_output(result), 1,
                                                  written)]
            /\ UNCHANGED <<pc, raised, exitStatus, log>>
  /\ NoDbCall
  /\ UNCHANGED <<locals, args, store, rowsRead, result, startEntries,
                 appended, trail, runs>>

\* self._write_output(output_file, result), then process returns and, under
\* main, the interpreter exits with status 0.  written is how many lines
\* reach the file: all of them, or fewer when IOError is raised on the way
\* (-1 when open itself fails and no file appears).
write_output_step(written) ==
  /\ pc = "Reporting"
  /\ IF written = Len(write_output(result))
       THEN /\ outFile' = [exists |-> TRUE, lines |-> write_output(result)]
            /\ log' = Append(log, <<"write", 0, "ok">>)
            /\ pc' = "Done"
            /\ raised' = "none"
            /\ exitStatus' = IF entry = "main" THEN 0 ELSE -1
            /\ UNCHANGED locals
       ELSE /\ Fail("IOError")
            /\ log' = Append(log, <<"write", 0, "raised">>)
            /\ outFile' = IF written < 0 THEN NoFile
                           ELSE [exists |-> TRUE,
                                 lines |-> SubSeq(write_output(result), 1,
                                                  written)]
  /\ NoDbCall
  /\ UNCHANGED <<args, store, rowsRead, result, startEntries, appended,
                 trail, runs>>

Next ==
  \/ \E dbOk \in BOOLEAN : CallInitialize(dbOk)
  \/ \E in \in InputPaths \ {None}, out \in OutputPaths \ {None},
        dbOk \in BOOLEAN : main(in, out, dbOk)
  \/ \E in \in InputPaths, out \in OutputPaths : process(in, out)
  \/ validating
  \/ \E event \in InputEvents : get_input(event)
  \/ \E resp \in TranslationResponses(message) : translate(resp)
  \/ \E resp \in ScoringResponses : get_score_step(resp)
  \/ \E dbOk \in BOOLEAN : store_activity(dbOk)
  \/ \E dbOk \in BOOLEAN : aggregate(dbOk)
  \/ \E written \in -1 .. Len(write_output(result)) : write_output_step(written)

Spec == Init /\ [][Next]_vars

\* A step of the run in progress: process is one thread of straight-line
\* code, so the run goes on as long as the call it waits for comes back.
RunStep ==
  \/ validating
  \/ \E event \in InputEvents : get_input(event)
  \/ \E resp \in TranslationResponses(message) : translate(resp)
  \/ \E resp \in ScoringResponses : get_score_step(resp)
  \/ \E dbOk \in BOOLEAN : store_activity(dbOk)
  \/ \E dbOk \in BOOLEAN : aggregate(dbOk)
  \/ \E written \in -1 .. Len(write_output(result)) : write_output_step(written)

\* The program when every call of a run comes back: the file read yields a
\* row or ends, requests.post answers or raises within its timeout, each
\* sqlite3 operation and the file write return or raise.
LiveSpec == Init /\ [][Next]_vars /\ WF_vars(RunStep)

\* ---------------------------------------------------------------- claims
\* Record i of the log is a remote call whose answer was a failure.
RemoteFailed(i) == log[i][1] \in {"translate", "score"} /\ log[i][3] # "ok"

\* Record i of the log is a call that ended in an exception.
Raised(i) ==
  \/ log[i][1] \in {"translate", "score"} /\ log[i][3] \in {"error", "transport"}
  \/ log[i][1] \in {"initialize", "store", "aggregate", "write"}
       /\ log[i][3] = "raised"

\* The operations this run has called, in order.
Called == { log[i][1] : i \in DOMAIN log }

\* A row with both fields: a user_id that parses and a message.
ValidRow(r) == int(r.user_id).raised = "none" /\ r.message # None

\* The input read by this run is non-empty and valid.
ValidInput ==
  rowsRead # <<>> /\ \A i \in DOMAIN rowsRead : ValidRow(rowsRead[i])

\* The user ids of the input rows read, and the rows of one user.
InputIds == { int(rowsRead[i].user_id).value : i \in DOMAIN rowsRead }
InputCount(u) ==
  Cardinality({ i \in DOMAIN rowsRead : int(rowsRead[i].user_id).value = u })

\* The lines of the output file below the header.
OutRows == IF outFile.lines = <<>> THEN <<>> ELSE Tail(outFile.lines)

\* The output has one row per input user_id, with that user's row count.
ReportMatchesInput ==
  /\ \A u \in InputIds :
       Cardinality({ j \in DOMAIN OutRows : OutRows[j][1] = u }) = 1
  /\ \A j \in DOMAIN OutRows :
       /\ OutRows[j][1] \in InputIds
       /\ OutRows[j][2] = InputCount(OutRows[j][1])

\* C1: every run on a non-empty valid input whose remote calls all succeed
\* writes exactly one output row per distinct user_id of the input, with
\* total_messages equal to the number of input rows of that user; also a
\* run that follows earlier runs on the same store.
C1_EveryRunReportsItsInput ==
  (pc = "Done" /\ ValidInput /\ \A i \in DOMAIN log : ~RemoteFailed(i))
    => ReportMatchesInput

\* process has been entered by the current run and has validated its paths.
Validated ==
  /\ pc \notin {"Idle", "Validating"}
  /\ entry = "main" => log[1][3] = "ok"

\* C2: process with an empty or None input path, or an empty or None output
\* path, raises MissingFileArgumentError; no translate or score call, no
\* append and no aggregate is made, and no output file is written.
C2_MissingPathFailsFirst ==
  (Validated /\ (Falsy(input_file) \/ Falsy(output_file)))
    => /\ pc = "Failed"
       /\ raised = "MissingFileArgumentError"
       /\ Called \subseteq {"initialize"}
       /\ rowsRead = <<>>
       /\ appended = <<>>
       /\ ~outFile.exists

\* A direct call with only the output path missing, on a store with entries.
C2_Reached ==
  /\ entry = "process"
  /\ pc = "Failed"
  /\ ~Falsy(input_file)
  /\ Falsy(output_file)
  /\ entries # <<>>

\* C3: an error payload from translation or scoring for row k aborts the run
\* at row k: it is the last call of the run, APIServiceError is raised,
\* exactly the rows before k were appended, and after a translation error
\* the scoring service is not called for row k.
C3_ErrorPayloadAborts ==
  \A i \in DOMAIN log :
    (log[i][1] \in {"translate", "score"} /\ log[i][3] = "error")
      => /\ i = Len(log)
         /\ pc = "Failed"
         /\ raised = "APIServiceError"
         /\ Len(appended) = log[i][2] - 1
         /\ entries = startEntries \o appended
         /\ log[i][1] = "translate" =>
              \A j \in DOMAIN log :
                ~(log[j][1] = "score" /\ log[j][2] = log[i][2])

\* A translation error payload at the second row, the first row stored.
C3_Reached ==
  /\ pc = "Failed"
  /\ log # <<>>
  /\ log[Len(log)] = <<"translate", 2, "error">>
  /\ Len(appended) = 1

\* C4: every remote answer with an error field, a non-2xx status or a
\* transport failure ends the run with a service error, and no entry is
\* stored for the row from a default value.
C4_FailuresSurface ==
  \A i \in DOMAIN log :
    RemoteFailed(i)
      => /\ i = Len(log)
         /\ pc = "Failed"
         /\ raised \in {"APIServiceError", "RequestException"}
         /\ \A j \in DOMAIN log :
              ~(log[j][1] = "store" /\ log[j][2] = log[i][2]
                  /\ log[j][3] = "ok")

\* C5: after initialize() returns, whatever the table held, the table exists
\* and is empty and the aggregate query yields no row; so does a second
\* initialize(), and one on an absent table.
C5_InitializeClears ==
  (last[1] = "initialize" /\ last[2])
    => /\ tableExists
       /\ entries = <<>>
       /\ generate_user_statistics(entries) = <<>>

\* An initialize() that deleted two entries.
C5_Reached == last[1] = "initialize" /\ last[2] /\ cleared >= 2

\* C6: whenever a run enters Streaming the table holds no entry of an
\* earlier run.
C6_ClearedAtEveryRun ==
  (pc = "Streaming" /\ rowsRead = <<>>) => entries = <<>>

\* C7: a run started by main with the input or the output path missing fails
\* with MissingFileArgumentError and exit status 1 before any I/O: the store
\* is neither created nor cleared and no output file appears.
C7_MainValidatesBeforeIO ==
  (entry = "main" /\ (Falsy(input_file) \/ Falsy(output_file)))
    => /\ "initialize" \notin Called
       /\ pc \in {"Validating", "Failed"}
       /\ pc = "Failed" =>
            raised = "MissingFileArgumentError" /\ exitStatus = 1
       /\ ~outFile.exists

\* The translate, score and store calls of this run, in order.
RowCalls ==
  SelectSeq(log, LAMBDA r : r[1] \in {"translate", "score", "store"})

Cycle == <<"translate", "score", "store">>

\* C8: rows are processed in input order without interleaving: the calls of
\* a run are translate, score, store of row 1, then of row 2, and so on;
\* every call but the last returned; and every row read before the current
\* one went through its whole cycle.
C8_RowsInOrder ==
  /\ \A i \in DOMAIN RowCalls :
       /\ RowCalls[i][1] = Cycle[((i - 1) % 3) + 1]
       /\ RowCalls[i][2] = ((i - 1) \div 3) + 1
       /\ RowCalls[i][2] <= Len(rowsRead)
       /\ i < Len(RowCalls) => RowCalls[i][3] \in {"ok", "bare"}
  /\ Len(rowsRead) > 0 => Len(RowCalls) >= 3 * (Len(rowsRead) - 1)
  /\ pc \in {"Streaming", "Aggregating", "Reporting", "Done"}
       => Len(RowCalls) = 3 * Len(rowsRead)

\* Two rows have gone through their cycles, one after the other.
C8_Reached == Len(RowCalls) = 6 /\ pc = "Streaming"

\* The rows whose store call returned.
StoredRows ==
  { log[i][2] : i \in { j \in DOMAIN log :
                          log[j][1] = "store" /\ log[j][3] = "ok" } }

\* The run failed inside the cycle of its last row read.
FailedAtRow == pc = "Failed" /\ rowsRead # <<>> /\ "aggregate" \notin Called

\* C9: in every state of a run that started on an empty table, the table
\* holds exactly the entries of the rows whose cycle completed, in input
\* order and as they were appended; after a failure at row k these are the
\* rows before k.
C9_StoreHoldsCompletedRows ==
  (pc # "Idle" /\ startEntries = <<>>)
    => /\ entries = appended
       /\ StoredRows = 1 .. Len(entries)
       /\ \A k \in DOMAIN entries :
            entries[k].user_id = int(rowsRead[k].user_id).value
       /\ FailedAtRow => Len(entries) = Len(rowsRead) - 1
       /\ ~FailedAtRow /\ pc # "Failed" =>
            Len(entries) \in {Len(rowsRead) - 1, Len(rowsRead)}

\* A storage failure at the second row, the first row's entry in place.
C9_Reached ==
  /\ pc = "Failed"
  /\ startEntries = <<>>
  /\ raised = "DatabaseError"
  /\ Len(rowsRead) = 2
  /\ Len(entries) = 1
  /\ log[Len(log)] = <<"store", 2, "raised">>

\* C10: once a translate, score or store call of a row has raised, the run
\* is Failed: no aggregate query, no call of the report writer, no output
\* file; so an output file exists only when every row read was stored.
C10_FailingRowAborts ==
  /\ \A i \in DOMAIN log :
       (log[i][1] \in {"translate", "score", "store"} /\ Raised(i))
         => /\ pc = "Failed"
            /\ "aggregate" \notin Called
            /\ "write" \notin Called
            /\ ~outFile.exists
  /\ outFile.exists =>
       /\ StoredRows = 1 .. Len(rowsRead)
       /\ \A i \in DOMAIN log :
            log[i][1] \in {"translate", "score", "store"} => ~Raised(i)

\* A scoring call raised at the second row, after the first was stored.
C10_Reached ==
  /\ pc = "Failed"
  /\ log # <<>>
  /\ log[Len(log)][1] = "score"
  /\ log[Len(log)][2] = 2
  /\ Raised(Len(log))

Aggregated ==
  \E i \in DOMAIN log : log[i][1] = "aggregate" /\ log[i][3] = "ok"

\* The positions of the table's rows of user u.
RowsOf(u) == { k \in DOMAIN entries : entries[k].user_id = u }

RECURSIVE ScoreTotal(_)
\* The sum of the stored scores at the positions in idx.
ScoreTotal(idx) ==
  IF idx = {} THEN 0
  ELSE LET k == CHOOSE x \in idx : TRUE
       IN entries[k].calculated_score + ScoreTotal(idx \ {k})

\* C12: for every user of the aggregate, avg_score is the sum of that user's
\* stored scores over their number, and lies between 0 and 1 (0 and 10 on
\* the scaled domain) when every stored score does.
C12_AverageIsMean ==
  Aggregated =>
    \A j \in DOMAIN result :
      LET a == result[j].avg_score
          idx == RowsOf(result[j].user_id)
      IN /\ a.den = Cardinality(idx)
         /\ a.den >= 1
         /\ a.num = ScoreTotal(idx)
         /\ (\A k \in idx : entries[k].calculated_score \in 0 .. 10)
              => 0 <= a.num /\ a.num <= 10 * a.den

\* A user with the scores 0.0 and 1.0: the average is 0.5.
C12_Reached ==
  /\ Aggregated
  /\ \E j \in DOMAIN result :
       result[j].avg_score = [num |-> 10, den |-> 2]

\* C13: for every user_id with an entry in the table the aggregate has
\* exactly one tuple, and its total_messages is at least 1 and is the number
\* of that user's entries, whatever their translated_message (NULL too).
C13_CountIsRowCount ==
  Aggregated =>
    \A u \in { entries[k].user_id : k \in DOMAIN entries } :
      /\ Cardinality({ j \in DOMAIN result : result[j].user_id = u }) = 1
      /\ \A j \in DOMAIN result :
           result[j].user_id = u
             => /\ result[j].total_messages >= 1
                /\ result[j].total_messages = Cardinality(RowsOf(u))

\* C14: the run is Done only after the report writer has written the whole
\* output: the file then holds every line of the report and the write is the
\* last call and returned; when the write raises, the run is Failed with the
\* IOError and never Done.
C14_DoneOnlyAfterFullWrite ==
  /\ pc = "Done"
       => /\ outFile = [exists |-> TRUE, lines |-> write_output(result)]
          /\ log # <<>>
          /\ log[Len(log)] = <<"write", 0, "ok">>
  /\ \A i \in DOMAIN log :
       log[i] = <<"write", 0, "raised">>
         => /\ i = Len(log)
            /\ pc = "Failed"
            /\ raised = "IOError"

\* The write raised after the header and one of two rows reached the file.
C14_Reached ==
  /\ pc = "Failed"
  /\ log # <<>>
  /\ log[Len(log)] = <<"write", 0, "raised">>
  /\ Len(result) = 2
  /\ outFile.exists
  /\ Len(outFile.lines) = 2

\* C15: every DatabaseManager operation (initialize, store_user_activity,
\* generate_user_statistics) has closed the connection it opened by the time
\* it returns or raises; none is left open for the next operation or row.
C15_ConnectionsReleased == last[1] # "none" => ~last[3]

\* C16: the output file starts with the header user_id,total_messages,
\* avg_score and line i + 1 is the i-th UserStatistic the writer was given;
\* after a write that returned there is one line per UserStatistic, none
\* added, dropped or reordered.
C16_HeaderThenRowsInOrder ==
  outFile.exists
    => /\ outFile.lines # <<>> => outFile.lines[1] = Header
       /\ Len(outFile.lines) <= Len(result) + 1
       /\ \A i \in DOMAIN result :
            i + 1 <= Len(outFile.lines)
              => outFile.lines[i + 1] =
                   <<result[i].user_id, result[i].total_messages,
                     result[i].avg_score>>
       /\ pc = "Done" => Len(outFile.lines) = Len(result) + 1

\* A report of two users has been written.
C16_Reached ==
  /\ pc = "Done"
  /\ Len(result) = 2
  /\ Len(outFile.lines) = 3
  /\ result[1] # result[2]

\* C17: a row read without a usable user_id or without a message makes the
\* run fail at that row: it is the last row read, the run is Failed, no remote
\* call and no store call was made for it, and nothing was appended for it.
C17_MalformedRowFails ==
  \A k \in DOMAIN rowsRead :
    ~ValidRow(rowsRead[k])
      => /\ pc = "Failed"
         /\ k = Len(rowsRead)
         /\ \A i \in DOMAIN log : log[i][2] # k
         /\ Len(appended) = k - 1

\* C18: for every entry this run stored, the scoring service was called
\* with the translated text returned for the same row, and the entry is that
\* row's user_id, that translated text and the score returned for it.
C18_EntryIsOfOneRow ==
  /\ Len(appended) <= Len(trail)
  /\ Len(trail) <= Len(rowsRead)
  /\ \A j \in DOMAIN trail :
       trail[j].sent # Unsent => trail[j].sent = trail[j].translated
  /\ \A j \in DOMAIN appended :
       /\ trail[j].sent = trail[j].translated
       /\ appended[j] = ActivityEntry(int(rowsRead[j].user_id).value,
                                      trail[j].translated, trail[j].score)
       /\ entries[Len(startEntries) + j] = appended[j]

\* Two rows of different users stored; the first row's translation came back
\* without a text, so what was scored differs from the raw message.
C18_Reached ==
  /\ Len(appended) = 2
  /\ appended[1].user_id # appended[2].user_id
  /\ rowsRead[1].message = "m1"
  /\ trail[1].translated = ""
  /\ trail[1].score # trail[2].score

\* C19: the aggregate query is issued only after the input is exhausted and
\* the append of every input row has returned: in Aggregating, and from the
\* aggregate call on, this run has appended as many entries as it read rows,
\* one for each row.
C19_AllStoredBeforeAggregate ==
  (pc = "Aggregating" \/ "aggregate" \in Called)
    => /\ Len(appended) = Len(rowsRead)
       /\ StoredRows = 1 .. Len(rowsRead)
       /\ entries = startEntries \o appended

\* Aggregating after an input of two rows.
C19_Reached == pc = "Aggregating" /\ Len(rowsRead) = 2 /\ Len(appended) = 2

\* C20: a failed output write leaves the store as it was: the table still
\* holds what it held when the aggregate was computed, and the aggregate
\* query on it yields again the statistics the failed write was given.
C20_FailedWriteKeepsStore ==
  (log # <<>> /\ log[Len(log)] = <<"write", 0, "raised">>)
    => /\ tableExists
       /\ entries = startEntries \o appended
       /\ generate_user_statistics(entries) = result

\* The write of a report of two users failed.
C20_Reached ==
  /\ log # <<>>
  /\ log[Len(log)] = <<"write", 0, "raised">>
  /\ pc = "Failed"
  /\ Len(result) = 2
  /\ Len(entries) = 2

\* A run is in progress: process has been entered and has not returned.
Running ==
  pc \in {"Validating", "Streaming", "Translate", "Score", "Store",
          "Aggregating", "Reporting"}

\* The run is over: process returned (Done) or an exception left it (Failed).
Ended == pc \in {"Done", "Failed"}

\* No row is processed twice: a run makes each of the calls translate, score
\* and store at most once for a row, and for rows it has read.
NoRowTwice ==
  \A i, j \in DOMAIN log :
    (log[i][2] > 0 /\ log[i][1] = log[j][1] /\ log[i][2] = log[j][2])
      => i = j /\ log[i][2] <= Len(rowsRead)

\* C21: on a finite input, when every remote call and every store operation
\* returns or fails, a run in progress eventually is Done or Failed; it leaves
\* Streaming every time it enters it, and it never processes a row twice.
C21_RunTerminates ==
  /\ []NoRowTwice
  /\ Running ~> Ended
  /\ (pc = "Streaming") ~> (pc # "Streaming")

\* A run that went through the cycles of two rows has come to Done.
C21_Reached == pc = "Done" /\ Len(rowsRead) = 2 /\ Len(RowCalls) = 6

====
